---- MODULE Spec2Model ----
(***************************************************************************)
(* Ticket Resolution Orchestrator of backend/agents/ticket_agent.py:       *)
(* the tool-calling loop of TicketAIAgent.process_ticket, its category     *)
(* handlers, and the batch sweep run_on_all_open_tickets.                  *)
(*                                                                         *)
(* Python str values are TLA+ strings; a character is a string of length   *)
(* one.  Python None and the pandas NaN of an empty cell are the two       *)
(* sentinels None and NaN.                                                 *)
(***************************************************************************)
EXTENDS Integers, Sequences, FiniteSets, Bags, TLC

None == "<None>"
NaN == "<NaN>"

\* Python truthiness of a str / None / NaN value (NaN is a float, truthy).
Truthy(v) == v # None /\ v # ""

\* str(v)
Str(v) == IF v = None THEN "None" ELSE IF v = NaN THEN "nan" ELSE v

\* dict.get(key, default)
Get(d, key, default) == IF key \in DOMAIN d THEN d[key] ELSE default

Max(S) == CHOOSE x \in S : \A y \in S : y <= x
Min(S) == CHOOSE x \in S : \A y \in S : x <= y

\* the elements of seq that are in keep, in order
RECURSIVE Filter(_, _)
Filter(seq, keep) ==
    IF seq = << >> THEN << >>
    ELSE (IF Head(seq) \in keep THEN << Head(seq) >> ELSE << >>) \o Filter(Tail(seq), keep)

Range(seq) == {seq[i] : i \in DOMAIN seq}

(***************************************************************************)
(* The ticket sheet, the invoice sheet and the user directory              *)
(***************************************************************************)
PyFalse == "<False>"
NOW_STR == "<today>"
AUTO_STATUS_AUTO_RESOLVED == "<AUTO_STATUS_AUTO_RESOLVED>"
NoInvoice == << >>

\* the ticket sheet's columns, in sheet order (the key order of row.to_dict())
COLUMNS ==
    << "Ticket ID", "Description", "Ticket Status", "Assigned Team", "Ticket Type",
       "User Name", "Requestor ", "Requestor Email ID", "Invoice Number",
       "Auto Solved", "Admin Review Needed", "AI Response",
       "Ticket Closed Date", "Ticket Updated Date" >>

STATUSES == {"Open", "Pending Manager Approval", "Closed", "Awaiting Manual Review"}

\* a not yet handled row of the ticket sheet
NewRow(id, description, status, team, type, user, requestor, email, invoice) ==
    ("Ticket ID" :> id) @@ ("Description" :> description) @@ ("Ticket Status" :> status)
    @@ ("Assigned Team" :> team) @@ ("Ticket Type" :> type) @@ ("User Name" :> user)
    @@ ("Requestor " :> requestor) @@ ("Requestor Email ID" :> email)
    @@ ("Invoice Number" :> invoice)
    @@ ("Auto Solved" :> NaN) @@ ("Admin Review Needed" :> NaN) @@ ("AI Response" :> NaN)
    @@ ("Ticket Closed Date" :> (IF status = "Closed" THEN "<earlier>" ELSE NaN))
    @@ ("Ticket Updated Date" :> NaN)

\* the sheets the agent can start from: row 1 is a document request with a
\* requestor address, row 2 an accounts-receivable refund request without one,
\* open in the first sheet and closed earlier by hand in the second
InitialSheets ==
    { << NewRow("TCK-1", "Please send me invoice copy for INV-1016", "Open", "AP Team",
                "Accounts Payable", "Alice", "Dana", " dana@client.example ", NaN),
         NewRow("TCK-2", "Please raise refund for invoice 2044", "Open", "AR Team",
                "Accounts Receivable", "bob ", NaN, NaN, "2044") >>,
      << NewRow("TCK-1", "Please send me invoice copy for INV-1016", "Open", "AP Team",
                "Accounts Payable", "Alice", "Dana", " dana@client.example ", NaN),
         NewRow("TCK-2", "Please raise refund for invoice 2044", "CLOSED", "AR Team",
                "Accounts Receivable", "bob ", NaN, NaN, "2044") >> }

INVOICES ==
    << ("Invoice Number" :> "INV-1016") @@ ("Payment Status" :> "Paid"),
       ("Invoice Number" :> "INV-2044") @@ ("Payment Status" :> "Unpaid") >>

User(name, role, team, email) == [name |-> name, role |-> role, team |-> team, email |-> email]

\* what load_users() returns: the AP team has two employees, one of them
\* without an address, and a manager; the AR team has nobody
USERS ==
    << User("Alice", "employee", "AP Team", "alice@ey.example"),
       User("Bob", "Employee", "ap team", None),
       User("Mona", "manager", "AP Team", "mona@ey.example") >>

INVOICE_FIELD_HINTS ==
    << "Invoice Number", "Invoice", "Invoice Reference",
       "Reference Invoice", "Invoice ID", "Invoice #" >>

REQUESTOR_EMAIL_FIELDS ==
    << "Requestor Email ID", "Requestor Email", "Requester Email",
       "Submitter Email", "Customer Email", "Email" >>

(***************************************************************************)
(* The reasoning service's possible answers                                *)
(***************************************************************************)
\* tool calls in one model turn
MaxToolCalls == 2
\* search_invoices calls the service asks for in one process_ticket invocation
MaxSearches == 2
\* process_ticket invocations in one behaviour
MaxInvocations == 2

max_turns == 6

SearchArgs ==
    { ("Invoice Number" :> "INV-1016"),
      ("Payment Status" :> "Unpaid"),
      ("Invoice Number" :> "INV-404") }

ResolveArgs ==
    { ("ticket_id" :> "TCK-1") @@ ("closure_type" :> "without_document")
          @@ ("ai_response" :> "Resolved.") @@ ("document_type" :> "none"),
      ("ticket_id" :> "TCK-1") @@ ("closure_type" :> "with_document")
          @@ ("ai_response" :> "Resolved.") @@ ("document_type" :> "invoice_copy"),
      ("ticket_id" :> "TCK-1") @@ ("closure_type" :> "with_document")
          @@ ("ai_response" :> "Resolved."),
      ("ticket_id" :> "TCK-1") @@ ("closure_type" :> "needs_approval")
          @@ ("ai_response" :> "Resolved.") @@ ("document_type" :> "none"),
      ("ticket_id" :> "TCK-1") @@ ("closure_type" :> "archive")
          @@ ("ai_response" :> "Resolved."),
      ("ticket_id" :> "TCK-1") @@ ("ai_response" :> "Resolved.") }

ReassignArgs ==
    { ("ticket_id" :> "TCK-1") @@ ("target_team" :> "AP")
          @@ ("reason" :> "reversal request") @@ ("ai_response" :> "Sent to AP."),
      ("ticket_id" :> "TCK-1") @@ ("target_team" :> "ar")
          @@ ("reason" :> "credit memo"),
      ("ticket_id" :> "TCK-1") @@ ("reason" :> "credit memo") }

\* msg.content of a turn without tool calls
Contents == {None, "", "Please contact support."}

\* the results of the external calls made while handling one tool call: the
\* result of update_multiple_fields, of the one or two send_email calls, and
\* whether the PDF generator returns a path
Externals == [dbOk : BOOLEAN, sent : BOOLEAN, sent2 : BOOLEAN, pdf : BOOLEAN]

\* the external results a handler can see: the others are held fixed
NeedsApprovalExternals == {e \in Externals : e.sent2 /\ e.pdf}
WithDocumentExternals == {e \in Externals : e.sent2}
WithoutDocumentExternals == {e \in Externals : e.sent2 /\ e.pdf}
ReassignExternals == {e \in Externals : e.pdf /\ (e.dbOk \/ (e.sent /\ e.sent2))}
ResolveExternals(args) ==
    LET closure_type == Get(args, "closure_type", None)
    IN IF closure_type = "needs_approval" THEN NeedsApprovalExternals
       ELSE IF closure_type = "with_document" THEN WithDocumentExternals
       ELSE WithoutDocumentExternals

(***************************************************************************)
(* str methods                                                             *)
(***************************************************************************)
CharAt(s, i) == IF i >= 1 /\ i <= Len(s) THEN SubSeq(s, i, i) ELSE ""

UpperLetters == "ABCDEFGHIJKLMNOPQRSTUVWXYZ"
LowerLetters == "abcdefghijklmnopqrstuvwxyz"
Digits == "0123456789"
Whitespace == {" ", "\t", "\n", "\r", "\f"}

CharsOf(alphabet) == {SubSeq(alphabet, i, i) : i \in 1..Len(alphabet)}

DigitChars == CharsOf(Digits)
AlphaChars == CharsOf(UpperLetters) \cup CharsOf(LowerLetters)
AlnumChars == DigitChars \cup AlphaChars
WordChars == AlnumChars \cup {"_"}

IsDigit(c) == c \in DigitChars
IsAlpha(c) == c \in AlphaChars
IsAlnum(c) == c \in AlnumChars
\* \w of the re module
IsWord(c) == c \in WordChars

\* str.lower() and str.upper() on one cased character
ToLower == [c \in CharsOf(UpperLetters) |->
              LET i == CHOOSE i \in 1..26 : SubSeq(UpperLetters, i, i) = c
              IN SubSeq(LowerLetters, i, i)]
ToUpper == [c \in CharsOf(LowerLetters) |->
              LET i == CHOOSE i \in 1..26 : SubSeq(LowerLetters, i, i) = c
              IN SubSeq(UpperLetters, i, i)]

LowerChar(c) == IF c \in DOMAIN ToLower THEN ToLower[c] ELSE c
UpperChar(c) == IF c \in DOMAIN ToUpper THEN ToUpper[c] ELSE c

\* every string of the sheets, the directory and the tool arguments, with
\* its str(), strip(), upper() and lower() forms: the strings the model's
\* states are made of
SheetRows == UNION {Range(sheet) : sheet \in InitialSheets}
DataStrings ==
    UNION {Range(row) : row \in SheetRows}
    \cup Range(COLUMNS) \cup Range(REQUESTOR_EMAIL_FIELDS) \cup STATUSES
    \cup UNION {{u.name, u.role, u.team, u.email} : u \in Range(USERS)}
    \cup UNION {Range(args) : args \in ReassignArgs}

RECURSIVE LowerOf(_)
LowerOf(s) == IF s = "" THEN "" ELSE LowerChar(Head(s)) \o LowerOf(Tail(s))

RECURSIVE UpperOf(_)
UpperOf(s) == IF s = "" THEN "" ELSE UpperChar(Head(s)) \o UpperOf(Tail(s))

RECURSIVE LStrip(_, _)
LStrip(s, chars) ==
    IF s # "" /\ Head(s) \in chars THEN LStrip(Tail(s), chars) ELSE s

RECURSIVE RStrip(_, _)
RStrip(s, chars) ==
    IF s # "" /\ SubSeq(s, Len(s), Len(s)) \in chars
    THEN RStrip(SubSeq(s, 1, Len(s) - 1), chars)
    ELSE s

StripOf(s) == RStrip(LStrip(s, Whitespace), Whitespace)

WithStripped(S) == S \cup {StripOf(s) : s \in S}
WithCases(S) == S \cup {UpperOf(s) : s \in S} \cup {LowerOf(s) : s \in S}
Words == WithCases(WithStripped({Str(s) : s \in DataStrings}))

\* the three methods, tabulated once over Words (the table holds the values
\* of the definitions above, which also serve any other string)
LowerTable == [s \in Words |-> LowerOf(s)]
UpperTable == [s \in Words |-> UpperOf(s)]
StripTable == [s \in Words |-> StripOf(s)]
Lookup(table, key, computed) == IF key \in DOMAIN table THEN table[key] ELSE computed

\* s.lower()
StrLower(s) == Lookup(LowerTable, s, LowerOf(s))
\* s.upper()
StrUpper(s) == Lookup(UpperTable, s, UpperOf(s))
\* s.strip()
Strip(s) == Lookup(StripTable, s, StripOf(s))

StartsWith(s, p) == Len(s) >= Len(p) /\ SubSeq(s, 1, Len(p)) = p

\* sub in s
Contains(s, sub) ==
    \E i \in 1..(Len(s) - Len(sub) + 1) : SubSeq(s, i, i + Len(sub) - 1) = sub

\* s.replace(old, new), old non-empty: leftmost non-overlapping occurrences
RECURSIVE Replace(_, _, _)
Replace(s, old, new) ==
    IF s = "" THEN ""
    ELSE IF StartsWith(s, old)
         THEN new \o Replace(SubSeq(s, Len(old) + 1, Len(s)), old, new)
         ELSE Head(s) \o Replace(Tail(s), old, new)

\* s.isdigit()
IsDigitStr(s) == s # "" /\ \A i \in 1..Len(s) : IsDigit(SubSeq(s, i, i))

(***************************************************************************)
(* Invoice Reference Extractor                                             *)
(***************************************************************************)
\* \b before position i (between s[i-1] and s[i])
WordBoundary(s, i) == IsWord(CharAt(s, i - 1)) # IsWord(CharAt(s, i))

MinOr(S, default) == IF S = {} THEN default ELSE Min(S)
MaxOr(S, default) == IF S = {} THEN default ELSE Max(S)

\* last index of the maximal run of characters satisfying InClass from k on
\* (k - 1 when s[k] is not in the class)
RunEnd(s, k, InClass(_)) ==
    MinOr({e \in k..Len(s) : ~InClass(SubSeq(s, e, e))}, Max({k, Len(s) + 1})) - 1

\* first index >= k that is not whitespace (\s* and \s+ are greedy)
SkipWs(s, k) == RunEnd(s, k, LAMBDA c : c \in Whitespace) + 1

\* greedy class+ followed by \b : the longest run prefix ending at a word
\* boundary, 0 when there is none
ClassPlusBoundary(s, k, InClass(_)) ==
    MaxOr({e \in k..RunEnd(s, k, InClass) : WordBoundary(s, e + 1)}, 0)

\* the first alternative when it matched, else the second (backtracking)
FirstPositive(first, second) == IF first > 0 THEN first ELSE second
FirstMatch(first, second) == IF first # << >> THEN first ELSE second

\* INVOICE_REGEX = \bINV[\s\-#]?[A-Z0-9]+\b (IGNORECASE), tried at position i:
\* the index of the last matched character, 0 when there is no match at i
InvoiceRegexMatchAt(s, i) ==
    IF ~(i + 2 <= Len(s) /\ WordBoundary(s, i) /\ UpperOf(SubSeq(s, i, i + 2)) = "INV")
    THEN 0
    ELSE FirstPositive(IF CharAt(s, i + 3) \in (Whitespace \cup {"-", "#"})
                       THEN ClassPlusBoundary(s, i + 4, IsAlnum) ELSE 0,
                       ClassPlusBoundary(s, i + 3, IsAlnum))

\* [m.group(0) for m in INVOICE_REGEX.finditer(s)], scanning from position i;
\* e is the end of the match tried at i
RECURSIVE InvoiceRegexFindFrom(_, _)
InvoiceRegexScan(s, i, e) ==
    IF e > 0 THEN << SubSeq(s, i, e) >> \o InvoiceRegexFindFrom(s, e + 1)
    ELSE InvoiceRegexFindFrom(s, i + 1)
InvoiceRegexFindFrom(s, i) ==
    IF i > Len(s) THEN << >> ELSE InvoiceRegexScan(s, i, InvoiceRegexMatchAt(s, i))

INVOICE_REGEX(s) == InvoiceRegexFindFrom(s, 1)

IsCaptureChar(c) == IsAlnum(c) \/ c = "-"

\* the n characters of s from w on, upper-cased ("" when s is too short)
LiteralAt(s, w, n) == UpperOf(IF w + n - 1 <= Len(s) THEN SubSeq(s, w, w + n - 1) ELSE "")

\* position after (?:Number|No\.|#) at w, 0 when none of them is there
GenericKeywordEnd(s, w) ==
    IF LiteralAt(s, w, 6) = "NUMBER" THEN w + 6
    ELSE IF LiteralAt(s, w, 3) = "NO." THEN w + 3
    ELSE IF LiteralAt(s, w, 1) = "#" THEN w + 1
    ELSE 0

\* position after (?:\s+(?:Number|No\.|#)) started at p, 0 when it does not match
GenericGroupEnd(s, p) == IF SkipWs(s, p) = p THEN 0 ELSE GenericKeywordEnd(s, SkipWs(s, p))

\* ([A-Z0-9-]+)\b from position b: <<first, last>> of group 1, << >> when no match
GenericCapture(s, b, e) == IF e > 0 THEN << b, e >> ELSE << >>
GenericCaptureAt(s, b) ==
    IF b > 0 THEN GenericCapture(s, b, ClassPlusBoundary(s, b, IsCaptureChar)) ELSE << >>

\* [:#-]?\s*([A-Z0-9-]+)\b from position a: the optional separator is tried
\* taken first
GenericSeparator(s, a) ==
    FirstMatch(GenericCaptureAt(s, IF CharAt(s, a) \in {":", "#", "-"}
                                   THEN SkipWs(s, a + 1) ELSE 0),
               GenericCaptureAt(s, a))

\* \s*[:#-]?\s*([A-Z0-9-]+)\b from position g
GenericTail(s, g) == GenericSeparator(s, SkipWs(s, g))

\* the tail after the optional group ending at g (0: the group did not match)
GenericGroupTail(s, g) == IF g > 0 THEN GenericTail(s, g) ELSE << >>

\* GENERIC_INVOICE_REGEX tried at position i: <<first, last>> of group 1
\* (last is also the end of the match), << >> when there is no match at i
GenericRegexMatchAt(s, i) ==
    IF ~(i + 6 <= Len(s) /\ WordBoundary(s, i) /\ UpperOf(SubSeq(s, i, i + 6)) = "INVOICE")
    THEN << >>
    ELSE FirstMatch(GenericGroupTail(s, GenericGroupEnd(s, i + 7)), GenericTail(s, i + 7))

\* [m.group(1) for m in GENERIC_INVOICE_REGEX.finditer(s)], scanning from i;
\* m is the match tried at i
RECURSIVE GenericRegexFindFrom(_, _)
GenericRegexScan(s, i, m) ==
    IF m # << >> THEN << SubSeq(s, m[1], m[2]) >> \o GenericRegexFindFrom(s, m[2] + 1)
    ELSE GenericRegexFindFrom(s, i + 1)
GenericRegexFindFrom(s, i) ==
    IF i > Len(s) THEN << >> ELSE GenericRegexScan(s, i, GenericRegexMatchAt(s, i))

GENERIC_INVOICE_REGEX(s) == GenericRegexFindFrom(s, 1)

\* normalize_invoice_reference once the value is upper-cased and cleaned of
\* "INVOICE", blanks and "#"
NormalizeRemainder(remainder) == IF remainder # "" THEN "INV-" \o remainder ELSE "INV"
NormalizeCleaned(cleaned) ==
    IF StartsWith(cleaned, "INV") /\ ~StartsWith(cleaned, "INV-")
    THEN NormalizeRemainder(LStrip(SubSeq(cleaned, 4, Len(cleaned)), {"-"}))
    ELSE IF IsDigitStr(cleaned) THEN "INV-" \o cleaned
    ELSE cleaned
NormalizeStripped(stripped) ==
    IF stripped = "" THEN None
    ELSE NormalizeCleaned(Replace(Replace(Replace(stripped, "INVOICE", "INV"), " ", ""),
                                  "#", ""))

normalize_invoice_reference(value) ==
    IF ~Truthy(value) THEN None ELSE NormalizeStripped(UpperOf(StripOf(Str(value))))

\* [v] when v is truthy, [] otherwise
IfTruthy(v) == IF Truthy(v) THEN << v >> ELSE << >>

\* the normalized, truthy values of a list of raw references, in order
RECURSIVE NormalizedOf(_)
NormalizedOf(raws) ==
    IF raws = << >> THEN << >>
    ELSE IfTruthy(normalize_invoice_reference(Head(raws))) \o NormalizedOf(Tail(raws))

\* faulty variant of Dedup: of equal candidates the last one is kept
RECURSIVE DedupKeepingLast(_, _)
DedupKeepingLast(cands, seen) ==
    IF cands = << >> THEN << >>
    ELSE IF Head(cands) \in Range(Tail(cands)) THEN DedupKeepingLast(Tail(cands), seen)
    ELSE << Head(cands) >> \o DedupKeepingLast(Tail(cands), seen)

\* order-preserving removal of duplicates (the seen/ordered loop)
RECURSIVE Dedup(_, _)
Dedup(cands, seen) ==
    IF cands = << >> THEN << >>
    ELSE IF Head(cands) \in seen THEN Dedup(Tail(cands), seen)
    ELSE << Head(cands) >> \o Dedup(Tail(cands), seen \cup {Head(cands)})

\* the values of the structured invoice fields that are truthy, in hint order
RECURSIVE FieldValues(_, _)
FieldValues(row, fields) ==
    IF fields = << >> THEN << >>
    ELSE IfTruthy(Get(row, Head(fields), None)) \o FieldValues(row, Tail(fields))

\* ticket.get("Description", "") or ""
DescriptionOf(ticket) == IF "Description" \in DOMAIN ticket THEN ticket["Description"] ELSE ""

extract_invoice_candidates(ticket) ==
    Dedup(NormalizedOf(FieldValues(ticket, INVOICE_FIELD_HINTS))
            \o NormalizedOf(INVOICE_REGEX(DescriptionOf(ticket)))
            \o NormalizedOf(GENERIC_INVOICE_REGEX(DescriptionOf(ticket))),
          {})

\* extract_invoice_candidates reads the invoice fields and the description
\* only; its value on the sheets' rows, which no update changes there, is
\* tabulated once
ExtractColumns == Range(INVOICE_FIELD_HINTS) \cup {"Description"}
ExtractKey(ticket) == [c \in ExtractColumns \cap DOMAIN ticket |-> ticket[c]]
ExtractTable ==
    [key \in {ExtractKey(row) : row \in SheetRows} |-> extract_invoice_candidates(key)]
InvoiceCandidates(ticket) ==
    Lookup(ExtractTable, ExtractKey(ticket), extract_invoice_candidates(ticket))

(***************************************************************************)
(* External collaborators (table_db, utils, email_service)                 *)
(***************************************************************************)
\* table_db.search_invoices(filters): the invoice rows matching every filter
search_invoices(filters) ==
    Filter(INVOICES,
           {inv \in Range(INVOICES) :
               \A k \in DOMAIN filters : k \in DOMAIN inv /\ inv[k] = filters[k]})

\* table_db.update_multiple_fields(ticket_id, fields) on sheet df: whole-value
\* replacement of the given fields in the rows of that ticket id; a failed
\* write (ok = FALSE) leaves the sheet as it was
update_multiple_fields(df, ticket_id, fields, ok) ==
    IF ok
    THEN [i \in DOMAIN df |-> IF df[i]["Ticket ID"] = ticket_id THEN fields @@ df[i] ELSE df[i]]
    ELSE df

\* utils.get_manager_by_team(team): {name, email} of the team's manager, or
\* nothing (falsy) when the team has none
NoManager == << >>
ManagerAmong(users, managers) ==
    IF managers = {} THEN NoManager
    ELSE [name |-> users[Min(managers)].name, email |-> users[Min(managers)].email]
get_manager_by_team(users, team) ==
    ManagerAmong(users, {i \in DOMAIN users :
                            StrLower(Str(users[i].role)) = "manager" /\ users[i].team = team})

\* utils.get_user_email_by_name(name)
EmailAmong(users, hits) == IF hits = {} THEN None ELSE users[Min(hits)].email
get_user_email_by_name(users, name) ==
    EmailAmong(users, {i \in DOMAIN users : users[i].name = name})

(***************************************************************************)
(* The external calls of a resolving branch, in the order performed        *)
(***************************************************************************)
UpdateEffect(ticket_id, fields, ok) ==
    [op |-> "update", id |-> ticket_id, fields |-> fields, ok |-> ok,
     to |-> "", subject |-> "", body |-> "", attachment |-> None]

EmailEffect(ticket_id, to, subject, body, attachment, ok) ==
    [op |-> "email", id |-> ticket_id, fields |-> << >>, ok |-> ok,
     to |-> to, subject |-> subject, body |-> body, attachment |-> attachment]

\* search_invoices({"Invoice Number": reference}) in
\* _resolve_invoice_data_for_document: `found` tells whether it returned rows
LookupEffect(reference, found) ==
    [op |-> "lookup", id |-> reference, fields |-> << >>, ok |-> found,
     to |-> "", subject |-> "", body |-> "", attachment |-> None]

\* a call of one of the three PDF generators on invoice_payload; path is what
\* it returned
GenerateEffect(ticket_id, invoice_payload, path) ==
    [op |-> "generate", id |-> ticket_id, fields |-> invoice_payload, ok |-> Truthy(path),
     to |-> "", subject |-> "", body |-> "", attachment |-> path]

\* faulty variant of ApplyEffects: the update is undone when a send fails
RECURSIVE ApplyUnlessSendFailed(_, _)
ApplyUnlessSendFailed(df, fx) ==
    IF \E i \in DOMAIN fx : fx[i].op = "email" /\ ~fx[i].ok THEN df
    ELSE IF fx = << >> THEN df
    ELSE ApplyUnlessSendFailed(
            IF Head(fx).op = "update"
            THEN update_multiple_fields(df, Head(fx).id, Head(fx).fields, Head(fx).ok)
            ELSE df,
            Tail(fx))

\* the sheet after the record updates among the effects fx
RECURSIVE ApplyEffects(_, _)
ApplyEffects(df, fx) ==
    IF fx = << >> THEN df
    ELSE ApplyEffects(
            IF Head(fx).op = "update"
            THEN update_multiple_fields(df, Head(fx).id, Head(fx).fields, Head(fx).ok)
            ELSE df,
            Tail(fx))

(***************************************************************************)
(* Ticket field helpers                                                    *)
(***************************************************************************)
\* os.getenv("APPROVAL_SECRET", ...) and os.getenv("APP_BASE_URL", ...): the
\* defaults
APPROVAL_SECRET == "ey_approval_secret"
APP_BASE_URL == "http://localhost:5000"

\* hashlib.sha256(raw.encode()).hexdigest(): the digest is a value that
\* stands for the hashed text and for nothing else (no two texts collide)
Sha256Hex(raw) == "sha256<" \o raw \o ">"

\* faulty variant of generate_approval_token: the ticket id is left out
TokenOfSecretOnly(ticket_id, secret) == Sha256Hex(":" \o secret)

\* generate_approval_token, secret being what os.getenv returns
generate_approval_token(ticket_id, secret) == Sha256Hex(ticket_id \o ":" \o secret)

\* _get_ticket_field: the value of the first key, in dict order, that equals
\* the target name up to casing and surrounding blanks
FieldAmong(ticket, hits) == IF hits = {} THEN None ELSE ticket[COLUMNS[Min(hits)]]
KeysMatching(ticket, normalized) ==
    {i \in DOMAIN COLUMNS :
        /\ COLUMNS[i] \in DOMAIN ticket
        /\ Truthy(COLUMNS[i])
        /\ StrLower(Strip(COLUMNS[i])) = normalized}
_get_ticket_field(ticket, target_name) ==
    IF ~Truthy(target_name) THEN None
    ELSE FieldAmong(ticket, KeysMatching(ticket, StrLower(Strip(target_name))))

\* the cleaned value of a requestor-email cell, None when it does not count
CleanedValue(cleaned) ==
    IF cleaned # "" /\ StrLower(cleaned) \notin {"", "nan", "none", "null", "n/a"}
    THEN cleaned ELSE None
CleanedEmail(raw) == IF Truthy(raw) THEN CleanedValue(Strip(Str(raw))) ELSE None

\* the first of two values that is not None
OrElse(first, second) == IF first # None THEN first ELSE second

RECURSIVE FirstRequestorEmail(_, _)
FirstRequestorEmail(row, fields) ==
    IF fields = << >> THEN None
    ELSE OrElse(CleanedEmail(_get_ticket_field(row, Head(fields))),
                FirstRequestorEmail(row, Tail(fields)))

get_requestor_email(ticket) == FirstRequestorEmail(ticket, REQUESTOR_EMAIL_FIELDS)

TicketId(ticket) == Str(Get(ticket, "Ticket ID", None))

(***************************************************************************)
(* Approval classifier                                                     *)
(***************************************************************************)
APPROVAL_KEYWORDS ==
    [ap |-> << "validate vendor", "vendor detail", "early payment", "invoice on hold" >>,
     ar |-> << "refund ticket", "raise refund", "investigate customer",
               "cancellation reason", "block invoice" >>]

\* any(keyword in description for keyword in keywords)
Matches(description, keywords) ==
    \E i \in DOMAIN keywords : Contains(description, keywords[i])

\* faulty variant of Classify: the description is matched as written
ClassifyCaseSensitive(team, ticket_type, description) ==
    \/ /\ Contains(LowerOf(ticket_type), "accounts payable") \/ Contains(LowerOf(team), "ap")
       /\ Matches(description, APPROVAL_KEYWORDS.ap)
    \/ /\ Contains(LowerOf(ticket_type), "accounts receivable") \/ Contains(LowerOf(team), "ar")
       /\ Matches(description, APPROVAL_KEYWORDS.ar)

\* the two tests of needs_manager_approval on str(team), str(ticket_type)
\* and str(description)
Classify(team, ticket_type, description) ==
    \/ /\ Contains(LowerOf(ticket_type), "accounts payable") \/ Contains(LowerOf(team), "ap")
       /\ Matches(LowerOf(description), APPROVAL_KEYWORDS.ap)
    \/ /\ Contains(LowerOf(ticket_type), "accounts receivable") \/ Contains(LowerOf(team), "ar")
       /\ Matches(LowerOf(description), APPROVAL_KEYWORDS.ar)

needs_manager_approval(ticket) ==
    Classify(Str(Get(ticket, "Assigned Team", "")), Str(Get(ticket, "Ticket Type", "")),
             Str(Get(ticket, "Description", "")))

(***************************************************************************)
(* Resolution Dispatcher: what each category's handler does                *)
(***************************************************************************)
\* _resolve_invoice_data_for_document
RECURSIVE FirstInvoiceFor(_)
FirstResult(results, candidates) ==
    IF results # << >> THEN results[1] ELSE FirstInvoiceFor(Tail(candidates))
FirstInvoiceFor(candidates) ==
    IF candidates = << >> THEN NoInvoice
    ELSE FirstResult(search_invoices("Invoice Number" :> Head(candidates)), candidates)

\* faulty variant of _resolve_invoice_data_for_document: the cached search
\* result is not looked at
ResolveIgnoringCache(ticket, cached_invoice) == FirstInvoiceFor(InvoiceCandidates(ticket))

_resolve_invoice_data_for_document(ticket, cached_invoice) ==
    IF cached_invoice # NoInvoice THEN cached_invoice
    ELSE FirstInvoiceFor(InvoiceCandidates(ticket))

\* the store queries _resolve_invoice_data_for_document makes on the way
RECURSIVE LookupsFor(_)
LookupsAfter(results, candidates) ==
    << LookupEffect(Head(candidates), results # << >>) >>
    \o (IF results # << >> THEN << >> ELSE LookupsFor(Tail(candidates)))
LookupsFor(candidates) ==
    IF candidates = << >> THEN << >>
    ELSE LookupsAfter(search_invoices("Invoice Number" :> Head(candidates)), candidates)
InvoiceLookups(ticket, cached_invoice) ==
    IF cached_invoice # NoInvoice THEN << >> ELSE LookupsFor(InvoiceCandidates(ticket))

\* CATEGORY 3: needs_approval.  ext.dbOk is the result of the record update,
\* ext.sent that of send_email
NeedsApprovalUpdate(ticket_id) ==
    ("Ticket Status" :> "Pending Manager Approval")
    @@ ("Admin Review Needed" :> "Yes")
    @@ ("Auto Solved" :> PyFalse)
    @@ ("AI Response" :> ("Ticket " \o ticket_id \o " is pending manager review. "
                          \o "We will notify you once a decision is made."))
    @@ ("Ticket Updated Date" :> NOW_STR)

ApprovalLinks(base_url, ticket_id, token) ==
    "APPROVE: " \o base_url \o "/ticket/approve/" \o ticket_id \o "?token=" \o token
    \o " REJECT: " \o base_url \o "/ticket/reject/" \o ticket_id \o "?token=" \o token

NeedsApprovalSteps(ticket_id, manager, ext) ==
    (IF manager # NoManager
     THEN << EmailEffect(ticket_id, manager.email,
                         "[APPROVAL REQUIRED] Ticket " \o ticket_id,
                         ApprovalLinks(APP_BASE_URL, ticket_id,
                                       generate_approval_token(ticket_id, APPROVAL_SECRET)),
                         None, ext.sent) >>
     ELSE << >>)
    \o << UpdateEffect(ticket_id, NeedsApprovalUpdate(ticket_id), ext.dbOk) >>

\* faulty variant of NeedsApprovalEffects: the requestor is told as well
NeedsApprovalAlsoRequestor(ticket, ext) ==
    << EmailEffect(TicketId(ticket), get_requestor_email(ticket),
                   "Ticket " \o TicketId(ticket) \o " - Pending", "pending", None, ext.sent) >>
    \o NeedsApprovalSteps(TicketId(ticket),
                          get_manager_by_team(USERS, Get(ticket, "Assigned Team", None)), ext)

NeedsApprovalEffects(ticket, ext) ==
    NeedsApprovalSteps(TicketId(ticket),
                       get_manager_by_team(USERS, Get(ticket, "Assigned Team", None)), ext)

\* faulty variant of ClosingUpdate: the status is not set to Closed
ClosingUpdateLeftOpen(ai_response) ==
    ("Ticket Status" :> "Open")
    @@ ("Ticket Closed Date" :> NOW_STR)
    @@ ("Auto Solved" :> AUTO_STATUS_AUTO_RESOLVED)
    @@ ("AI Response" :> ai_response)
    @@ ("Ticket Updated Date" :> NOW_STR)

\* faulty variant of ClosingUpdate: the closed date is not written
ClosingUpdateWithoutDate(ai_response) ==
    ("Ticket Status" :> "Closed")
    @@ ("Auto Solved" :> AUTO_STATUS_AUTO_RESOLVED)
    @@ ("AI Response" :> ai_response)
    @@ ("Ticket Updated Date" :> NOW_STR)

\* the update_dict of the two closing categories
ClosingUpdate(ai_response) ==
    ("Ticket Status" :> "Closed")
    @@ ("Ticket Closed Date" :> NOW_STR)
    @@ ("Auto Solved" :> AUTO_STATUS_AUTO_RESOLVED)
    @@ ("AI Response" :> ai_response)
    @@ ("Ticket Updated Date" :> NOW_STR)

\* the generator called for a document_type, and the path it returns when
\* generation works (ext.pdf); None when it fails
GeneratedPdf(document_type, pdf) ==
    IF ~pdf THEN None
    ELSE IF document_type = "payment_confirmation" THEN "payment_confirmation.pdf"
    ELSE IF document_type = "invoice_details" THEN "invoice_details.pdf"
    ELSE "invoice_copy.pdf"

\* CATEGORY 2: with_document
\* faulty variant of AttachmentOf: the generated file is not passed on
AttachmentDropped(generated) == None

\* attachment_path: what the generator returned, None when it was not called
AttachmentOf(generated) == IF generated = << >> THEN None ELSE generated[1].attachment

\* after the generator call, if any: the update, then the email to the
\* requestor when there is an address
WithDocumentSteps(ticket_id, ai_response, inv_status, generated, requestor_email, ext) ==
    generated
    \o (IF Truthy(requestor_email)
        THEN << UpdateEffect(ticket_id, ClosingUpdate(ai_response), ext.dbOk),
                EmailEffect(ticket_id, requestor_email,
                       IF Truthy(AttachmentOf(generated))
                       THEN "Ticket " \o ticket_id \o " - Closed (Document Attached)"
                       ELSE "Ticket " \o ticket_id \o " - Closed",
                       IF Truthy(AttachmentOf(generated))
                       THEN "Please find the requested document attached."
                       ELSE "Note: We were unable to generate the PDF document automatically "
                            \o "(current ledger status: " \o inv_status \o ")",
                       AttachmentOf(generated), ext.sent) >>
        ELSE << UpdateEffect(ticket_id, ClosingUpdate(ai_response), ext.dbOk) >>)

\* the branch once invoice_payload is resolved
WithDocumentPayload(ticket, ai_response, document_type, invoice_payload, available, ext) ==
    WithDocumentSteps(TicketId(ticket), ai_response,
                      IF invoice_payload # NoInvoice
                      THEN Get(invoice_payload, "Payment Status", "N/A") ELSE "N/A",
                      IF available /\ invoice_payload # NoInvoice
                      THEN << GenerateEffect(TicketId(ticket), invoice_payload,
                                             GeneratedPdf(document_type, ext.pdf)) >>
                      ELSE << >>,
                      get_requestor_email(ticket), ext)

WithDocumentEffects(ticket, ai_response, document_type, cached_invoice, available, ext) ==
    InvoiceLookups(ticket, cached_invoice)
    \o WithDocumentPayload(ticket, ai_response, document_type,
                           _resolve_invoice_data_for_document(ticket, cached_invoice),
                           available, ext)

\* faulty variant of WithoutDocumentSteps: without a requestor address the
\* record update is skipped too
WithoutDocumentSkippingUpdate(ticket_id, ai_response, requestor_email, ext) ==
    IF Truthy(requestor_email)
    THEN << UpdateEffect(ticket_id, ClosingUpdate(ai_response), ext.dbOk),
            EmailEffect(ticket_id, requestor_email,
                        "Ticket " \o ticket_id \o " - Resolved",
                        "resolved", None, ext.sent) >>
    ELSE << >>

\* CATEGORY 1: without_document (the else branch: any other closure_type)
WithoutDocumentSteps(ticket_id, ai_response, requestor_email, ext) ==
    IF Truthy(requestor_email)
    THEN << UpdateEffect(ticket_id, ClosingUpdate(ai_response), ext.dbOk),
            EmailEffect(ticket_id, requestor_email,
                        "Ticket " \o ticket_id \o " - Resolved",
                        "resolved", None, ext.sent) >>
    ELSE << UpdateEffect(ticket_id, ClosingUpdate(ai_response), ext.dbOk) >>

WithoutDocumentEffects(ticket, ai_response, ext) ==
    WithoutDocumentSteps(TicketId(ticket), ai_response, get_requestor_email(ticket), ext)

\* faulty variant of ClosureBranch: the else branch is not counted as a
\* resolution unless the closure type is without_document
ClosureBranchKnownOnly(closure_type) ==
    IF closure_type \in {"needs_approval", "with_document", "without_document"}
    THEN closure_type ELSE "none"

\* the branch of resolve_ticket taken for a closure_type
ClosureBranch(closure_type) ==
    IF closure_type = "needs_approval" THEN "needs_approval"
    ELSE IF closure_type = "with_document" THEN "with_document"
    ELSE "without_document"

ResolveEffects(ticket, args, cached_invoice, available, ext) ==
    IF ClosureBranch(args["closure_type"]) = "needs_approval"
    THEN NeedsApprovalEffects(ticket, ext)
    ELSE IF ClosureBranch(args["closure_type"]) = "with_document"
    THEN WithDocumentEffects(ticket, Get(args, "ai_response", "Ticket processed by AI."),
                             Get(args, "document_type", "none"),
                             cached_invoice, available, ext)
    ELSE WithoutDocumentEffects(ticket, Get(args, "ai_response", "Ticket processed by AI."),
                                ext)

\* the value process_ticket returns after a resolve_ticket call
ResolveResult(ticket, args) ==
    "Ticket " \o TicketId(ticket) \o ": " \o ClosureBranch(args["closure_type"])

\* CATEGORY 4: reassign_ticket_and_notify
\* df_all["Assigned Team"].dropna().unique().tolist()
RECURSIVE TeamsOf(_)
TeamsOf(df) ==
    IF df = << >> THEN << >>
    ELSE (IF Head(df)["Assigned Team"] \in {NaN, None} THEN << >>
          ELSE << Head(df)["Assigned Team"] >>) \o TeamsOf(Tail(df))

\* next((t for t in all_teams if raw_team in str(t).upper()), raw_team)
TeamAmong(all_teams, hits, raw_team) == IF hits = {} THEN raw_team ELSE all_teams[Min(hits)]
FirstTeamMatching(all_teams, raw_team) ==
    TeamAmong(all_teams,
              {i \in DOMAIN all_teams : Contains(StrUpper(Str(all_teams[i])), raw_team)},
              raw_team)
MatchedTeam(df_all, raw_team) == FirstTeamMatching(Dedup(TeamsOf(df_all), {}), raw_team)

\* the names of the directory's employees of the target team, in directory order
RECURSIVE Specialists(_, _)
Specialists(users, raw_team) ==
    IF users = << >> THEN << >>
    ELSE (IF /\ StrLower(Str(Head(users).role)) = "employee"
             /\ Contains(StrLower(Str(Head(users).team)), StrLower(raw_team))
          THEN << Head(users).name >> ELSE << >>) \o Specialists(Tail(users), raw_team)

\* the number of Open tickets of the sheet assigned to name
Workload(df_all, name) ==
    Cardinality({i \in DOMAIN df_all :
        /\ df_all[i]["User Name"] \notin {NaN, None}
        /\ StrLower(Strip(df_all[i]["User Name"])) = StrLower(name)
        /\ df_all[i]["Ticket Status"] \notin {NaN, None}
        /\ StrLower(df_all[i]["Ticket Status"]) = "open"})

\* faulty variant of FirstLeast: among the least loaded the last one wins
LastLeast(keys, workload) ==
    keys[Max({i \in DOMAIN keys : \A j \in DOMAIN keys : workload[i] <= workload[j]})]

\* workload = {name: count}: one count per key, in insertion order
WorkloadOf(df_all, keys) == [i \in DOMAIN keys |-> Workload(df_all, keys[i])]

\* min(workload, key=workload.get): the first key, in insertion order, of
\* minimum workload; None when there is no specialist
FirstLeast(keys, workload) ==
    keys[Min({i \in DOMAIN keys : \A j \in DOMAIN keys : workload[i] <= workload[j]})]
LeastLoaded(df_all, keys) == FirstLeast(keys, WorkloadOf(df_all, keys))
SelectSpecialist(df_all, specialists) ==
    IF specialists = << >> THEN None ELSE LeastLoaded(df_all, Dedup(specialists, {}))

\* faulty variant of ReassignUpdate: without a specialist the assigned
\* employee is cleared
ReassignUpdateClearing(ticket, matched_team, specialist_name, ai_response) ==
    ("Assigned Team" :> matched_team)
    @@ ("User Name" :> (IF Truthy(specialist_name) THEN specialist_name ELSE ""))
    @@ ("Ticket Status" :> "Open")
    @@ ("Ticket Updated Date" :> NOW_STR)
    @@ ("AI Response" :> ai_response)
    @@ ("Auto Solved" :> PyFalse)

ReassignUpdate(ticket, matched_team, specialist_name, ai_response) ==
    ("Assigned Team" :> matched_team)
    @@ ("User Name" :> (IF Truthy(specialist_name) THEN specialist_name
                        ELSE Get(ticket, "User Name", "")))
    @@ ("Ticket Status" :> "Open")
    @@ ("Ticket Updated Date" :> NOW_STR)
    @@ ("AI Response" :> ai_response)
    @@ ("Auto Solved" :> PyFalse)

\* the email to the specialist, when there is one with an address
SpecialistNotice(ticket_id, specialist_name, specialist_email, sent) ==
    IF Truthy(specialist_name) /\ Truthy(specialist_email)
    THEN << EmailEffect(ticket_id, specialist_email,
                        "[NEW ASSIGNMENT] Ticket " \o ticket_id \o " - Action Required",
                        "new assignment", None, sent) >>
    ELSE << >>

\* the email to the requestor, when there is an address
RequestorNotice(ticket_id, requestor_email, matched_team, sent) ==
    IF Truthy(requestor_email)
    THEN << EmailEffect(ticket_id, requestor_email,
                        "Ticket " \o ticket_id \o " - Assigned to " \o matched_team
                            \o " Specialist",
                        "assigned to specialist team", None, sent) >>
    ELSE << >>

\* faulty variant of ReassignSteps: the specialist is only told when the
\* requestor could be told
ReassignStepsChained(ticket, ticket_id, ai_response, matched_team, specialist_name, ext) ==
    << UpdateEffect(ticket_id,
                    ReassignUpdate(ticket, matched_team, specialist_name, ai_response),
                    ext.dbOk) >>
    \o (IF ext.dbOk /\ Truthy(get_requestor_email(ticket))
        THEN RequestorNotice(ticket_id, get_requestor_email(ticket), matched_team, ext.sent)
             \o SpecialistNotice(ticket_id, specialist_name,
                                 IF specialist_name = None THEN None
                                 ELSE get_user_email_by_name(USERS, specialist_name),
                                 ext.sent2)
        ELSE << >>)

\* the update, then, only if it succeeded, the two emails
ReassignSteps(ticket, ticket_id, ai_response, matched_team, specialist_name, ext) ==
    << UpdateEffect(ticket_id,
                    ReassignUpdate(ticket, matched_team, specialist_name, ai_response),
                    ext.dbOk) >>
    \o (IF ext.dbOk
        THEN RequestorNotice(ticket_id, get_requestor_email(ticket), matched_team, ext.sent)
             \o SpecialistNotice(ticket_id, specialist_name,
                                 IF specialist_name = None THEN None
                                 ELSE get_user_email_by_name(USERS, specialist_name),
                                 ext.sent2)
        ELSE << >>)

\* the branch once raw_team = args["target_team"].upper() is known
ReassignTo(ticket, args, raw_team, df_all, ext) ==
    ReassignSteps(ticket, TicketId(ticket),
                  Get(args, "ai_response", "Reassigned to " \o raw_team \o " specialist"),
                  MatchedTeam(df_all, raw_team),
                  SelectSpecialist(df_all, Specialists(USERS, raw_team)), ext)

ReassignEffects(ticket, args, df_all, ext) ==
    ReassignTo(ticket, args, StrUpper(args["target_team"]), df_all, ext)

\* the value process_ticket returns after a reassign_ticket_and_notify call
ReassignMessage(ticket_id, matched_team, specialist_name) ==
    "Ticket " \o ticket_id \o " reassigned to " \o matched_team \o " specialist: "
    \o (IF Truthy(specialist_name) THEN specialist_name ELSE "unassigned")
ReassignedTo(ticket, raw_team, df_all) ==
    ReassignMessage(TicketId(ticket), MatchedTeam(df_all, raw_team),
                    SelectSpecialist(df_all, Specialists(USERS, raw_team)))
ReassignResult(ticket, args, df_all, ext) ==
    IF ext.dbOk THEN ReassignedTo(ticket, StrUpper(args["target_team"]), df_all)
    ELSE "Reassignment failed"

(***************************************************************************)
(* State                                                                   *)
(***************************************************************************)
VARIABLES
    store,               \* the ticket sheet (table_db)
    DOCUMENTS_AVAILABLE, \* module flag set at import
    pc,                  \* "idle" | "sweep" | "chat" | "tools"
    runner,              \* who called process_ticket: "sweep" | "single" | "none"
    invocations,         \* process_ticket invocations so far
    queue,               \* run_on_all_open_tickets: rows left, the current one first
    results,             \* run_on_all_open_tickets: results
    sweep,               \* the sweep under way or just ended: what it selected, how it ended
    this_ticket,         \* process_ticket: the row passed in
    turn,                \* process_ticket: loop variable
    pending,             \* tool calls of msg.tool_calls not yet iterated
    last_invoice_data,   \* process_ticket: cached search result
    search_results,      \* process_ticket: what the latest search_invoices tool call returned
    messages,            \* process_ticket: transcript, as a bag of roles
    llmCalls,            \* reasoning-service calls of this invocation
    effects,             \* record updates and emails of this invocation
    handled,             \* the resolving branch this invocation took
    handled_args,        \* the arguments of the tool call that branch handled
    outcome,             \* how the invocation ended
    applied,             \* the latest application of one of the module's functions on its own
    swept,               \* the ticket ids dispatched by a resolving tool call in a sweep, as a bag
    runs                 \* two process_ticket runs whose external calls may interleave

vars ==
    << store, DOCUMENTS_AVAILABLE, pc, runner, invocations, queue, results, sweep,
       this_ticket, turn, pending, last_invoice_data, search_results, messages, llmCalls,
       effects, handled, handled_args, outcome, applied, swept, runs >>

NoTicket == << >>
NoSweep == [status |-> "none", selected |-> << >>, recorded |-> << >>]
NoApplication == [fn |-> "none", input |-> << >>, value |-> None]
Runs == 1..2
NoRun == [pc |-> "idle", ticket |-> NoTicket, todo |-> << >>, did |-> << >>,
          overlapping |-> FALSE]

Init ==
    /\ store \in InitialSheets
    /\ DOCUMENTS_AVAILABLE \in BOOLEAN
    /\ pc = "idle"
    /\ runner = "none"
    /\ invocations = 0
    /\ queue = << >>
    /\ results = << >>
    /\ sweep = NoSweep
    /\ this_ticket = NoTicket
    /\ turn = 0
    /\ pending = 0
    /\ last_invoice_data = NoInvoice
    /\ search_results = << >>
    /\ messages = EmptyBag
    /\ llmCalls = 0
    /\ effects = << >>
    /\ handled = "none"
    /\ handled_args = << >>
    /\ outcome = [kind |-> "none", value |-> ""]
    /\ applied = NoApplication
    /\ swept = EmptyBag
    /\ runs = [r \in Runs |-> NoRun]

\* the locals of process_ticket are gone once it has returned or raised
DropLocals ==
    /\ turn' = 0
    /\ pending' = 0
    /\ last_invoice_data' = NoInvoice
    /\ search_results' = << >>
    /\ messages' = EmptyBag

\* process_ticket returns value to its caller `who`: the sweep appends it to
\* results and goes on with the next row
Return(who, value) ==
    /\ outcome' = [kind |-> "returned", value |-> value]
    /\ DropLocals
    /\ IF who = "sweep"
       THEN /\ results' = Append(results, value)
            /\ queue' = Tail(queue)
            /\ pc' = "sweep"
       ELSE /\ results' = results
            /\ queue' = queue
            /\ pc' = "idle"

\* process_ticket raises: nothing catches the exception, neither in
\* process_ticket nor in run_on_all_open_tickets, so a sweep ends with it
Raise(who, exception) ==
    /\ outcome' = [kind |-> "raised", value |-> exception]
    /\ DropLocals
    /\ pc' = "idle"
    /\ results' = << >>
    /\ queue' = << >>
    /\ IF who = "sweep"
       THEN sweep' = [sweep EXCEPT !.status = "raised", !.recorded = results]
       ELSE sweep' = sweep

(***************************************************************************)
(* process_ticket                                                          *)
(***************************************************************************)
\* faulty variant of IsClosed: the status is compared without lower-casing
IsClosedExactCase(row) == Str(Get(row, "Ticket Status", "Open")) = "closed"

\* the status check on the row passed in
IsClosed(row) == StrLower(Str(Get(row, "Ticket Status", "Open"))) = "closed"

InitialMessages == SetToBag({"system", "user"})

\* faulty variant of NewConversation: the cache and the transcript are kept in
\* the agent and outlive the ticket they were filled for
ConversationOfTheAgent ==
    /\ last_invoice_data' = INVOICES[1]
    /\ search_results' = << >>
    /\ messages' = InitialMessages (+) SetToBag({"assistant", "tool"})

\* the conversation state process_ticket creates for the row passed in
NewConversation ==
    /\ last_invoice_data' = NoInvoice
    /\ search_results' = << >>
    /\ messages' = InitialMessages

\* entry of process_ticket(row), called by `who`: status check, then the
\* transcript and the loop's locals
Enter(row, who) ==
    /\ invocations < MaxInvocations
    /\ invocations' = invocations + 1
    /\ this_ticket' = row
    /\ runner' = who
    /\ llmCalls' = 0
    /\ effects' = << >>
    /\ handled' = "none"
    /\ handled_args' = << >>
    /\ UNCHANGED << store, DOCUMENTS_AVAILABLE >>
    /\ IF IsClosed(row)
       THEN Return(who, "Ticket is already closed.")
       ELSE /\ pc' = "chat"
            /\ turn' = 0
            /\ pending' = 0
            /\ NewConversation
            /\ outcome' = [kind |-> "running", value |-> ""]
            /\ UNCHANGED << queue, results >>

\* process_ticket called on its own with a row read from the sheet
ProcessSingle ==
    /\ UNCHANGED << applied, swept, runs >>
    /\ pc = "idle"
    /\ sweep' = NoSweep
    /\ \E i \in DOMAIN store : Enter(store[i], "single")

\* faulty variant of NextToolCall: the turn counter is never advanced
NextToolCallSameTurn ==
    /\ pending' = pending - 1
    /\ turn' = turn
    /\ pc' = IF pending = 1 THEN "chat" ELSE "tools"
    /\ UNCHANGED << outcome, queue, results >>

\* the tool call at hand is done without a return: on to the next tool call
\* of the turn, or to the next turn
NextToolCall ==
    /\ pending' = pending - 1
    /\ IF pending = 1
       THEN turn' = turn + 1 /\ pc' = "chat"
       ELSE turn' = turn /\ pc' = "tools"
    /\ UNCHANGED << outcome, queue, results >>

\* one turn: the reasoning service is called with the transcript
ChatCompletion ==
    /\ UNCHANGED << applied, swept, runs >>
    /\ pc = "chat"
    /\ turn < max_turns
    /\ llmCalls' = llmCalls + 1
    /\ UNCHANGED << store, DOCUMENTS_AVAILABLE, runner, invocations, this_ticket, effects,
                    handled, handled_args >>
    /\ \/ \* the call raises
          Raise(runner, "APIError")
       \/ \* a turn without tool calls
          \E content \in Contents :
             IF content = None
             THEN Raise(runner, "TypeError")
             ELSE /\ Return(runner,
                            IF Truthy(content) THEN content ELSE "No resolution reached.")
                  /\ UNCHANGED sweep
       \/ \* a turn with tool calls
          \E n \in 1..MaxToolCalls :
             /\ messages' = messages (+) SetToBag({"assistant"})
             /\ pending' = n
             /\ pc' = "tools"
             /\ UNCHANGED << turn, last_invoice_data, search_results, outcome, queue,
                             results, sweep >>

\* the loop ends after max_turns turns
MaxTurnsReached ==
    /\ UNCHANGED << applied, swept, runs >>
    /\ pc = "chat"
    /\ turn >= max_turns
    /\ Return(runner, "Max turns reached without resolution")
    /\ UNCHANGED << store, DOCUMENTS_AVAILABLE, runner, invocations, this_ticket, llmCalls,
                    effects, handled, handled_args, sweep >>

\* json.loads fails on the arguments of the tool call
MalformedArguments ==
    /\ UNCHANGED << applied, swept, runs >>
    /\ pc = "tools"
    /\ Raise(runner, "JSONDecodeError")
    /\ UNCHANGED << store, DOCUMENTS_AVAILABLE, runner, invocations, this_ticket, llmCalls,
                    effects, handled, handled_args >>

\* if results: last_invoice_data = results[0]
CachedAfter(found, cached) == IF found # << >> THEN found[1] ELSE cached

\* TOOL 1: search_invoices
SearchInvoices ==
    /\ UNCHANGED << applied, swept, runs >>
    /\ pc = "tools"
    /\ CopiesIn("tool", messages) < MaxSearches
    /\ \E args \in SearchArgs :
          /\ search_results' = search_invoices(args)
          /\ last_invoice_data' = CachedAfter(search_invoices(args), last_invoice_data)
          /\ messages' = messages (+) SetToBag({"tool"})
    /\ NextToolCall
    /\ UNCHANGED << store, DOCUMENTS_AVAILABLE, runner, invocations, this_ticket, llmCalls,
                    effects, handled, handled_args, sweep >>

\* a tool name that is none of the three: no branch is taken
UnknownTool ==
    /\ UNCHANGED << applied, swept, runs >>
    /\ pc = "tools"
    /\ NextToolCall
    /\ UNCHANGED << store, DOCUMENTS_AVAILABLE, runner, invocations, this_ticket, llmCalls,
                    effects, handled, handled_args, last_invoice_data, search_results,
                    messages, sweep >>

\* faulty variant of AfterResolving: no return, the loop goes on
ContinueLoop(value) ==
    /\ NextToolCall
    /\ UNCHANGED << last_invoice_data, search_results, messages >>

\* what follows the handling of a resolving tool call: process_ticket returns
AfterResolving(value) == Return(runner, value)

\* a resolving tool call's branch: its side effects fx happen in order, then
\* process_ticket returns value
Perform(args, fx, branch, value) ==
    /\ store' = ApplyEffects(store, fx)
    /\ effects' = effects \o fx
    /\ handled' = branch
    /\ handled_args' = args
    /\ swept' = IF runner = "sweep"
                THEN swept (+) SetToBag({TicketId(this_ticket)})
                ELSE swept
    /\ AfterResolving(value)
    /\ UNCHANGED sweep

\* TOOL 2: resolve_ticket
ResolveTicket ==
    /\ UNCHANGED << applied, runs >>
    /\ pc = "tools"
    /\ UNCHANGED << DOCUMENTS_AVAILABLE, runner, invocations, this_ticket, llmCalls >>
    /\ \E args \in ResolveArgs :
          IF "closure_type" \notin DOMAIN args
          THEN /\ Raise(runner, "KeyError")
               /\ UNCHANGED << store, effects, handled, handled_args, swept >>
          ELSE \E ext \in ResolveExternals(args) :
                  Perform(args,
                          ResolveEffects(this_ticket, args, last_invoice_data,
                                         DOCUMENTS_AVAILABLE, ext),
                          ClosureBranch(args["closure_type"]),
                          ResolveResult(this_ticket, args))

\* TOOL 3: reassign_ticket_and_notify
ReassignTicketAndNotify ==
    /\ UNCHANGED << applied, runs >>
    /\ pc = "tools"
    /\ UNCHANGED << DOCUMENTS_AVAILABLE, runner, invocations, this_ticket, llmCalls >>
    /\ \E args \in ReassignArgs :
          IF "target_team" \notin DOMAIN args
          THEN /\ Raise(runner, "KeyError")
               /\ UNCHANGED << store, effects, handled, handled_args, swept >>
          ELSE \E ext \in ReassignExternals :
                  Perform(args, ReassignEffects(this_ticket, args, store, ext), "reassign",
                          ReassignResult(this_ticket, args, store, ext))

(***************************************************************************)
(* run_on_all_open_tickets                                                 *)
(***************************************************************************)
\* df[df["Ticket Status"].str.lower() != "closed"]
OpenTickets(df) ==
    Filter(df, {row \in Range(df) : StrLower(Str(row["Ticket Status"])) # "closed"})

RECURSIVE IdsOf(_)
IdsOf(rows) == IF rows = << >> THEN << >> ELSE << Head(rows)["Ticket ID"] >> \o IdsOf(Tail(rows))

RunOnAllOpenTickets ==
    /\ UNCHANGED << applied, swept, runs >>
    /\ pc = "idle"
    /\ invocations < MaxInvocations
    /\ queue' = OpenTickets(store)
    /\ results' = << >>
    /\ sweep' = [status |-> "running", selected |-> IdsOf(OpenTickets(store)),
                 recorded |-> << >>]
    /\ pc' = "sweep"
    /\ runner' = "sweep"
    /\ UNCHANGED << store, DOCUMENTS_AVAILABLE, invocations, this_ticket, turn, pending,
                    last_invoice_data, search_results, messages, llmCalls, effects, handled,
                    handled_args, outcome >>

\* the body of the for loop: process_ticket on the next row
SweepIterate ==
    /\ UNCHANGED << applied, swept, runs >>
    /\ pc = "sweep"
    /\ queue # << >>
    /\ Enter(Head(queue), "sweep")
    /\ UNCHANGED sweep

\* the loop is over: the results are returned
SweepReturn ==
    /\ UNCHANGED << applied, swept, runs >>
    /\ pc = "sweep"
    /\ queue = << >>
    /\ sweep' = [sweep EXCEPT !.status = "returned", !.recorded = results]
    /\ results' = << >>
    /\ pc' = "idle"
    /\ runner' = "none"
    /\ UNCHANGED << store, DOCUMENTS_AVAILABLE, invocations, queue, this_ticket, turn,
                    pending, last_invoice_data, search_results, messages, llmCalls, effects,
                    handled, handled_args, outcome >>

Next ==
    \/ ProcessSingle
    \/ RunOnAllOpenTickets
    \/ SweepIterate
    \/ SweepReturn
    \/ ChatCompletion
    \/ MaxTurnsReached
    \/ MalformedArguments
    \/ SearchInvoices
    \/ UnknownTool
    \/ ResolveTicket
    \/ ReassignTicketAndNotify

Spec == Init /\ [][Next]_vars

\* every external call returns and the caller goes on: the reasoning service
\* answers a turn, the loop over the tool calls of a turn moves on to the next
\* one (the branch-free iteration stands for the loop body: it can be taken
\* whenever a tool call is pending), and the loop ends after its last turn
FairSpec == Spec /\ WF_vars(ChatCompletion) /\ WF_vars(MaxTurnsReached) /\ WF_vars(UnknownTool)

(***************************************************************************)
(* The module's functions applied on their own: a behaviour applies one    *)
(* of them to one input                                                    *)
(***************************************************************************)
\* the approval endpoint's check of a link: the token is regenerated and
\* compared
verify(ticket_id, token, secret) == token = generate_approval_token(ticket_id, secret)

ClassifierTeams == {"AP Team", "AR Team", "Marketing", NaN}
ClassifierTypes == {"Accounts Payable", "Accounts Receivable", NaN}
ClassifierDescriptions ==
    { "Please validate vendor details before early payment",
      "Requesting Early Payment of INV-1016",
      "Invoice on hold since May",
      "Please raise refund for invoice 2044",
      "Block Invoice 2044 and give the cancellation reason",
      "validate vendor and raise refund",
      "Where is my invoice?",
      "early pay, refund",
      NaN }
ClassifierTickets ==
    { ("Assigned Team" :> team) @@ ("Ticket Type" :> type) @@ ("Description" :> description) :
          team \in ClassifierTeams, type \in ClassifierTypes,
          description \in ClassifierDescriptions }
    \cup { ("Description" :> description) : description \in ClassifierDescriptions }

TokenIds == {"TCK-1", "TCK-2", "TCK-10", "TCK-1:", "None", ""}
Secrets == {APPROVAL_SECRET, "rotated_secret", "TCK-1"}

\* raw references handed to normalize_invoice_reference
NormalizeInputs ==
    { "", "  ", None, NaN, "inv1016", "Invoice #2044", "2044", "INV-1016", " inv 77 ",
      "INVOICE", "inv--5", "#", "AINVO ICE", "PO-88" }

\* tickets handed to extract_invoice_candidates: what the invoice cells and
\* the description can hold
NoCell == ("Ticket ID" :> "TCK-9")
InvoiceNumberCells ==
    { NoCell, ("Invoice Number" :> "1016"), ("Invoice Number" :> "inv 2044"),
      ("Invoice Number" :> NaN) }
InvoiceIdCells == { NoCell, ("Invoice ID" :> "INV-1016"), ("Invoice ID" :> "9") }
DescriptionCells ==
    { NoCell,
      ("Description" :> ""),
      ("Description" :> "Please send me invoice copy for INV-1016"),
      ("Description" :> "Invoice INV-2044 then inv 1016"),
      ("Description" :> "Invoice No. 2044 and Invoice #9"),
      ("Description" :> "Where is my payment?") }
ExtractorTickets ==
    { number @@ id @@ description :
          number \in InvoiceNumberCells, id \in InvoiceIdCells,
          description \in DescriptionCells }

process_vars ==
    << store, DOCUMENTS_AVAILABLE, pc, runner, invocations, queue, results, sweep,
       this_ticket, turn, pending, last_invoice_data, search_results, messages, llmCalls,
       effects, handled, handled_args, outcome, swept, runs >>

ApplyNeedsManagerApproval ==
    /\ applied.fn = "none"
    /\ \E ticket \in ClassifierTickets :
          applied' = [fn |-> "needs_manager_approval", input |-> ticket,
                      value |-> needs_manager_approval(ticket)]
    /\ UNCHANGED process_vars

ApplyGenerateApprovalToken ==
    /\ applied.fn = "none"
    /\ \E ticket_id \in TokenIds, secret \in Secrets :
          applied' = [fn |-> "generate_approval_token", input |-> << ticket_id, secret >>,
                      value |-> generate_approval_token(ticket_id, secret)]
    /\ UNCHANGED process_vars

ApplyNormalizeInvoiceReference ==
    /\ applied.fn = "none"
    /\ \E value \in NormalizeInputs :
          applied' = [fn |-> "normalize_invoice_reference", input |-> value,
                      value |-> normalize_invoice_reference(value)]
    /\ UNCHANGED process_vars

ApplyExtractInvoiceCandidates ==
    /\ applied.fn = "none"
    /\ \E ticket \in ExtractorTickets :
          applied' = [fn |-> "extract_invoice_candidates", input |-> ticket,
                      value |-> extract_invoice_candidates(ticket)]
    /\ UNCHANGED process_vars

\* a link issued for one id is presented for an id, the secret unchanged
ApplyVerify ==
    /\ applied.fn = "none"
    /\ \E ticket_id \in TokenIds, issued_for \in TokenIds, secret \in Secrets :
          applied' = [fn |-> "verify", input |-> << ticket_id, issued_for, secret >>,
                      value |-> verify(ticket_id,
                                       generate_approval_token(issued_for, secret), secret)]
    /\ UNCHANGED process_vars

\* the needs_approval branch on a row of the sheet
ApplyNeedsApproval ==
    /\ applied.fn = "none"
    /\ \E row \in SheetRows, ext \in NeedsApprovalExternals :
          applied' = [fn |-> "needs_approval", input |-> row,
                      value |-> NeedsApprovalEffects(row, ext)]
    /\ UNCHANGED process_vars

FunctionNext ==
    \/ ApplyNeedsManagerApproval
    \/ ApplyGenerateApprovalToken
    \/ ApplyVerify
    \/ ApplyNeedsApproval
    \/ ApplyNormalizeInvoiceReference
    \/ ApplyExtractInvoiceCandidates

FunctionSpec == Init /\ [][FunctionNext]_vars

(***************************************************************************)
(* Two process_ticket runs without mutual exclusion: each run is handed a  *)
(* row read from the sheet, checks its status, lets the reasoning service  *)
(* choose a resolving tool call, and then makes the branch's external      *)
(* calls one by one; the calls of the two runs interleave freely           *)
(***************************************************************************)
\* faulty variant of ReadRow: the caller hands over the row as it was when
\* the ticket was opened
ReadRowAsOpened(df, i) == [df[i] EXCEPT !["Ticket Status"] = "Open"]

\* the caller reads the sheet and hands process_ticket the row (row.to_dict())
ReadRow(df, i) == df[i]

\* the side effects of the resolving tool calls the service can choose for a
\* ticket, in call order
DispatchChoices(ticket, df_all, available) ==
    { ResolveEffects(ticket, args, NoInvoice, available, ext) :
          args \in {a \in ResolveArgs : "closure_type" \in DOMAIN a},
          ext \in {e \in Externals : e.sent2 /\ e.pdf} }
    \cup { ReassignEffects(ticket, args, df_all, ext) :
              args \in {a \in ReassignArgs : "target_team" \in DOMAIN a},
              ext \in ReassignExternals }

rest_vars ==
    << DOCUMENTS_AVAILABLE, pc, runner, invocations, queue, results, sweep, this_ticket,
       turn, pending, last_invoice_data, search_results, messages, llmCalls, effects,
       handled, handled_args, outcome, applied, swept >>

InProgress(r) == runs[r].pc \in {"checked", "dispatching"}

\* process_ticket(row) is entered: the status check on the row passed in; run
\* 2 is the one that starts second
Begin ==
    /\ \E r \in Runs, i \in DOMAIN store :
          /\ runs[r].pc = "idle"
          /\ r = 2 => runs[1].pc # "idle"
          /\ runs' = [runs EXCEPT ![r] =
                        [pc |-> IF IsClosed(ReadRow(store, i)) THEN "done" ELSE "checked",
                         ticket |-> ReadRow(store, i), todo |-> << >>, did |-> << >>,
                         overlapping |-> \E q \in Runs \ {r} : InProgress(q)]]
    /\ UNCHANGED << store, rest_vars >>

\* the conversation of a run ends in a resolving tool call: its branch is
\* entered
Dispatch ==
    /\ \E r \in Runs :
          /\ runs[r].pc = "checked"
          /\ \E fx \in DispatchChoices(runs[r].ticket, store, DOCUMENTS_AVAILABLE) :
                runs' = [runs EXCEPT ![r].pc = IF fx = << >> THEN "done" ELSE "dispatching",
                                     ![r].todo = fx]
    /\ UNCHANGED << store, rest_vars >>

\* the next external call of a run's branch
ExternalCall ==
    /\ \E r \in Runs :
          /\ runs[r].pc = "dispatching"
          /\ store' = ApplyEffects(store, << Head(runs[r].todo) >>)
          /\ runs' = [runs EXCEPT ![r].todo = Tail(runs[r].todo),
                                  ![r].did = Append(runs[r].did, Head(runs[r].todo)),
                                  ![r].pc = IF Tail(runs[r].todo) = << >>
                                            THEN "done" ELSE "dispatching"]
    /\ UNCHANGED rest_vars

\* the conversation of a run ends without a resolving tool call
Unresolved ==
    /\ \E r \in Runs :
          /\ runs[r].pc = "checked"
          /\ runs' = [runs EXCEPT ![r].pc = "done"]
    /\ UNCHANGED << store, rest_vars >>

OverlapNext ==
    \/ Begin
    \/ Dispatch
    \/ ExternalCall
    \/ Unresolved

OverlapSpec == Init /\ [][OverlapNext]_vars

(***************************************************************************)
(* Properties                                                              *)
(***************************************************************************)
IsUpdate(e) == e.op = "update"
IsEmail(e) == e.op = "email"
\* the update_multiple_fields and the send_email calls of this invocation
UpdatesOf(fx) == SelectSeq(fx, IsUpdate)
EmailsOf(fx) == SelectSeq(fx, IsEmail)
FailedUpdate == \E i \in DOMAIN effects : IsUpdate(effects[i]) /\ ~effects[i].ok
Running == pc \in {"chat", "tools"}
ClosingBranches == {"without_document", "with_document"}
ResolveBranches == ClosingBranches \cup {"needs_approval"}

\* the sheet's row of the ticket being processed
StoredRow == store[CHOOSE i \in DOMAIN store : store[i]["Ticket ID"] = this_ticket["Ticket ID"]]

\* C1: if the record update of a resolving tool call fails, no notification
\* email is sent in that process_ticket invocation.
C1_NoEmailWhenUpdateFails == FailedUpdate => EmailsOf(effects) = << >>

\* C2 as stated: after a resolve_ticket call of category 1, 2 or 3 the stored
\* status is never Open; after a reassignment it is never Closed.
C2_NeverLeftOpen ==
    /\ handled \in ResolveBranches => StoredRow["Ticket Status"] # "Open"
    /\ handled = "reassign" => StoredRow["Ticket Status"] # "Closed"

\* C2 amended: after a resolve_ticket call of category 1, 2 or 3 whose record
\* update succeeded the stored status is Closed (1, 2) or Pending Manager
\* Approval (3); when the update failed the status is the one the ticket had;
\* after a reassignment the stored status is never Closed.
C2_StatusAfterHandling ==
    /\ handled \in ClosingBranches /\ ~FailedUpdate => StoredRow["Ticket Status"] = "Closed"
    /\ handled = "needs_approval" /\ ~FailedUpdate
          => StoredRow["Ticket Status"] = "Pending Manager Approval"
    /\ handled # "none" /\ FailedUpdate
          => StoredRow["Ticket Status"] = this_ticket["Ticket Status"]
    /\ handled = "reassign" => StoredRow["Ticket Status"] # "Closed"

C2_Witness ==
    /\ handled = "needs_approval" /\ ~FailedUpdate
    /\ this_ticket["Ticket Status"] = "Open"
    /\ StoredRow["Ticket Status"] = "Pending Manager Approval"

\* C3: in one invocation update_multiple_fields is called at most once, and
\* once a resolving tool call has been handled no later tool call is executed
\* and no further reasoning-service call is made: the invocation is over.
C3_AtMostOneResolvingCall ==
    /\ Len(UpdatesOf(effects)) <= 1
    /\ handled # "none" => ~Running /\ outcome.kind = "returned"

C3_Witness ==
    handled # "none" /\ llmCalls = 2 /\ Len(UpdatesOf(effects)) = 1 /\ ~Running

LoopVariant ==
    (max_turns - turn) * (MaxToolCalls + 2)
    + (IF pc = "chat" THEN MaxToolCalls + 1 ELSE pending)

\* C5: process_ticket makes at most 6 reasoning-service calls per invocation
\* and, every external call returning, always terminates: each step of a
\* running invocation ends it or uses up some of what is left of the loop,
\* and a running invocation eventually is over.
C5_TerminatesWithinBudget ==
    /\ [](llmCalls <= 6 /\ turn <= 6)
    /\ [][Running => ~Running' \/ (LoopVariant' < LoopVariant /\ LoopVariant' >= 0)]_vars
    /\ Running ~> ~Running

C5_Witness == llmCalls = 6 /\ ~Running /\ outcome.kind = "returned"

\* the addresses in a ticket's requestor-email cells, in the directory for a
\* role, and of the employee a row is assigned to
RequestorAddresses(row) ==
    {StripOf(Str(row[f])) : f \in Range(REQUESTOR_EMAIL_FIELDS) \cap DOMAIN row}
AddressesOfRole(role) == {u.email : u \in {v \in Range(USERS) : LowerOf(Str(v.role)) = role}}
AssigneeAddresses(row) == {u.email : u \in {v \in Range(USERS) : v.name = row["User Name"]}}
Recipients == {effects[i].to : i \in {j \in DOMAIN effects : IsEmail(effects[j])}}

\* C6: categories 1 and 2 email only the requestor, category 3 only the team
\* manager (never the requestor or the assigned employee), category 4 only the
\* requestor and the selected specialist.
C6_OnlyAllowedParties ==
    /\ handled \in ClosingBranches => Recipients \subseteq RequestorAddresses(this_ticket)
    /\ handled = "needs_approval"
          => /\ Recipients \subseteq AddressesOfRole("manager")
             /\ Recipients \cap RequestorAddresses(this_ticket) = {}
             /\ Recipients \cap AssigneeAddresses(this_ticket) = {}
    /\ handled = "reassign" /\ ~FailedUpdate
          => Recipients \subseteq
                RequestorAddresses(this_ticket) \cup AssigneeAddresses(StoredRow)
    /\ handled = "none" => Recipients = {}

C6_Witness ==
    handled = "reassign" /\ Cardinality(Recipients) = 2

\* the values process_ticket returns after a resolve_ticket call whose
\* record update succeeded
WrittenOutcomes ==
    {"Ticket " \o Str(store[i]["Ticket ID"]) \o ": " \o b : i \in DOMAIN store, b \in ResolveBranches}

\* C7: when the record-store write of a resolving tool call fails, the value
\* process_ticket returns differs from the one returned when the write
\* succeeds, and the record is left as it was.
C7_WriteFailureDistinguishable ==
    FailedUpdate => outcome.value \notin WrittenOutcomes /\ StoredRow = this_ticket

\* C8: process_ticket on a ticket whose status is Closed makes no
\* reasoning-service call, no record update and sends no email, also when the
\* ticket was closed by a previous invocation.
C8_ClosedTicketUntouched ==
    this_ticket # NoTicket /\ this_ticket["Ticket Status"] = "Closed"
        => /\ llmCalls = 0 /\ effects = << >> /\ ~Running
           /\ outcome = [kind |-> "returned", value |-> "Ticket is already closed."]
           /\ StoredRow = this_ticket

C8_Witness ==
    /\ invocations = 2 /\ this_ticket # NoTicket
    /\ this_ticket["Ticket Status"] = "Closed"
    /\ this_ticket["Auto Solved"] = AUTO_STATUS_AUTO_RESOLVED
    /\ outcome.value = "Ticket is already closed."

\* C9: a sweep that has ended has recorded a result for every ticket it
\* selected: neither turn-budget exhaustion nor an exception raised while
\* processing one ticket aborts it.
C9_SweepRecordsEveryTicket ==
    sweep.status \in {"returned", "raised"} => Len(sweep.recorded) = Len(sweep.selected)

\* the status each category writes
StatusWritten(branch) ==
    IF branch \in ClosingBranches THEN "Closed"
    ELSE IF branch = "needs_approval" THEN "Pending Manager Approval"
    ELSE "Open"

\* C10: for every resolving tool call the record update is attempted exactly
\* once, for the ticket passed in and with the category's values, also when
\* there is nobody to notify.
C10_UpdateAlwaysAttempted ==
    handled # "none"
        => /\ Len(UpdatesOf(effects)) = 1
           /\ UpdatesOf(effects)[1].id = Str(this_ticket["Ticket ID"])
           /\ UpdatesOf(effects)[1].fields["Ticket Status"] = StatusWritten(handled)
           /\ UpdatesOf(effects)[1].fields["Ticket Updated Date"] = NOW_STR

C10_Witness ==
    /\ handled = "without_document" /\ EmailsOf(effects) = << >>
    /\ Len(UpdatesOf(effects)) = 1
    /\ RequestorAddresses(this_ticket) = {"nan"}

\* the single record update of the resolving branch taken
TheUpdate == UpdatesOf(effects)[1]
FailedEmail == \E i \in DOMAIN effects : IsEmail(effects[i]) /\ ~effects[i].ok
FieldsStored(fields, row) == \A k \in DOMAIN fields : row[k] = fields[k]

\* C11: if send_email fails after the record update of a resolving tool call
\* succeeded, the record keeps the updated values, and no recipient is sent
\* to twice in the invocation.
C11_NoRollbackNoRetry ==
    handled # "none" /\ ~FailedUpdate /\ FailedEmail
        => /\ FieldsStored(TheUpdate.fields, StoredRow)
           /\ \A i, j \in DOMAIN effects :
                 IsEmail(effects[i]) /\ IsEmail(effects[j]) /\ effects[i].to = effects[j].to
                     => i = j

C11_Witness ==
    /\ handled = "with_document" /\ ~FailedUpdate /\ FailedEmail
    /\ StoredRow["Ticket Status"] = "Closed" /\ this_ticket["Ticket Status"] = "Open"

\* C12: in every state of the sheet a ticket whose status is Closed has a
\* closed date and its auto-solved flag set.
C12_ClosedHasDateAndFlag ==
    \A i \in DOMAIN store :
        store[i]["Ticket Status"] = "Closed"
            => /\ store[i]["Ticket Closed Date"] \notin {NaN, None, ""}
               /\ store[i]["Auto Solved"] = AUTO_STATUS_AUTO_RESOLVED

C12_Witness ==
    \E i \in DOMAIN store :
        store[i]["Ticket Status"] = "Closed" /\ store[i]["Ticket Closed Date"] = NOW_STR

\* the generator calls of this invocation and the path the generator returned
GenerationsOf(fx) == SelectSeq(fx, LAMBDA e : e.op = "generate")
ReturnedPath ==
    IF GenerationsOf(effects) = << >> THEN None ELSE GenerationsOf(effects)[1].attachment

\* C13: in category 2 the closing update is attempted whether or not invoice
\* data was resolved, the generator is available or returned a path; the
\* requestor email carries an attachment exactly when generation returned a
\* path, and otherwise the note citing the ledger status.
C13_DocumentNeverBlocksClosure ==
    handled = "with_document"
        => /\ Len(UpdatesOf(effects)) = 1
           /\ TheUpdate.fields["Ticket Status"] = "Closed"
           /\ Len(GenerationsOf(effects)) <= 1
           /\ \A i \in DOMAIN effects :
                 IsEmail(effects[i])
                     => /\ effects[i].attachment = ReturnedPath
                        /\ Truthy(ReturnedPath)
                              => ~Contains(effects[i].body, "ledger status")
                        /\ ~Truthy(ReturnedPath)
                              => \E st \in {"Paid", "Unpaid", "N/A"} :
                                    Contains(effects[i].body,
                                             "(current ledger status: " \o st \o ")")

C13_Witness ==
    /\ handled = "with_document"
    /\ GenerationsOf(effects) # << >> /\ ~Truthy(ReturnedPath)
    /\ \E i \in DOMAIN effects :
          IsEmail(effects[i]) /\ Contains(effects[i].body, "(current ledger status: Paid)")

\* the invoice sheet's first row of a reference, if any
RowsNumbered(reference) ==
    {i \in DOMAIN INVOICES : INVOICES[i]["Invoice Number"] = reference}
\* the candidates of a ticket whose store query is non-empty
HitsAmong(candidates) == {i \in DOMAIN candidates : RowsNumbered(candidates[i]) # {}}
\* how many candidates are queried: up to and including the first hit
QueriedAmong(candidates) ==
    IF HitsAmong(candidates) = {} THEN Len(candidates) ELSE Min(HitsAmong(candidates))
ResolvedAmong(candidates) ==
    IF HitsAmong(candidates) = {} THEN NoInvoice
    ELSE INVOICES[Min(RowsNumbered(candidates[Min(HitsAmong(candidates))]))]
LookupsOf(fx) == SelectSeq(fx, LAMBDA e : e.op = "lookup")
\* what the resolution of a with_document call must be, given the cache and
\* the ticket's candidates
ResolutionAsSpecified(cached, candidates, fx) ==
    /\ Len(LookupsOf(fx)) = (IF cached # NoInvoice THEN 0 ELSE QueriedAmong(candidates))
    /\ \A i \in DOMAIN LookupsOf(fx) :
          /\ LookupsOf(fx)[i].id = candidates[i]
          /\ LookupsOf(fx)[i].ok = (i \in HitsAmong(candidates))
    /\ \A i \in DOMAIN GenerationsOf(fx) :
          GenerationsOf(fx)[i].fields
              = (IF cached # NoInvoice THEN cached ELSE ResolvedAmong(candidates))
    /\ (GenerationsOf(fx) # << >>)
          = (DOCUMENTS_AVAILABLE /\ (cached # NoInvoice \/ HitsAmong(candidates) # {}))

\* C14: invoice data for a category-2 document is the cached search result
\* if there is one; otherwise the record of the first candidate, in
\* extract_invoice_candidates order, whose store query is non-empty, no later
\* candidate being queried; otherwise none.
C14_InvoiceResolutionOrder ==
    [][handled = "none" /\ handled' = "with_document"
          => ResolutionAsSpecified(last_invoice_data, InvoiceCandidates(this_ticket), effects')]_vars

C14_Witness ==
    /\ handled = "with_document"
    /\ Len(LookupsOf(effects)) = 3 /\ LookupsOf(effects)[3].ok
    /\ Len(InvoiceCandidates(this_ticket)) = 4
    /\ GenerationsOf(effects) # << >>

\* C15: after any search_invoices tool call the cached invoice is the first
\* record of what the most recent search call returned, each search call
\* appends exactly one tool-result message, and the loop goes on.
C15_CacheIsLatestSearch ==
    /\ [](Running /\ CopiesIn("tool", messages) > 0
            => last_invoice_data
                  = (IF search_results = << >> THEN NoInvoice ELSE search_results[1]))
    /\ [][CopiesIn("tool", messages') > CopiesIn("tool", messages)
            => CopiesIn("tool", messages') = CopiesIn("tool", messages) + 1 /\ Running']_vars
    /\ [][Running /\ Running' /\ search_results' # search_results
            => CopiesIn("tool", messages') = CopiesIn("tool", messages) + 1]_vars

\* the cleaned requestor addresses of a row: those that count as an address
KnownRequestorAddresses(row) ==
    {a \in RequestorAddresses(row) : LowerOf(a) \notin {"", "nan", "none", "null", "n/a"}}
\* the directory's employees whose team contains the target code
QualifiedFor(target) ==
    {u \in Range(USERS) :
        LowerOf(Str(u.role)) = "employee" /\ Contains(LowerOf(Str(u.team)), LowerOf(target))}
Target == handled_args["target_team"]

\* C16: in category 4, after a successful record update (status Open,
\* auto-solved false, assigned employee the selected specialist), the
\* requestor message and the specialist message are attempted independently
\* of each other.
C16_IndependentMessages ==
    handled = "reassign" /\ ~FailedUpdate
        => /\ StoredRow["Ticket Status"] = "Open"
           /\ StoredRow["Auto Solved"] = PyFalse
           /\ StoredRow["Assigned Team"] = TheUpdate.fields["Assigned Team"]
           /\ KnownRequestorAddresses(this_ticket) \subseteq Recipients
           /\ QualifiedFor(Target) # {}
                 => {a \in AssigneeAddresses(StoredRow) : Truthy(a)} \subseteq Recipients

C16_Witness ==
    /\ handled = "reassign" /\ ~FailedUpdate
    /\ KnownRequestorAddresses(this_ticket) = {}
    /\ Recipients = {"alice@ey.example"}

\* the sheet as it was when the resolving call was handled
PriorSheet ==
    [i \in DOMAIN store |->
        IF store[i]["Ticket ID"] = this_ticket["Ticket ID"] THEN this_ticket ELSE store[i]]
\* the number of Open tickets assigned to a directory user
OpenLoad(df, name) ==
    Cardinality({i \in DOMAIN df :
        /\ LowerOf(StripOf(Str(df[i]["User Name"]))) = LowerOf(name)
        /\ LowerOf(Str(df[i]["Ticket Status"])) = "open"})
DirectoryIndex(name) == Min({i \in DOMAIN USERS : USERS[i].name = name})

\* C17: the specialist selected for a reassignment is a directory employee
\* whose team contains the target code, with the minimum count of Open
\* tickets among them, and the first such in directory order.
C17_LeastLoadedFirst ==
    handled = "reassign" /\ QualifiedFor(Target) # {}
        => \E u \in QualifiedFor(Target) :
              /\ TheUpdate.fields["User Name"] = u.name
              /\ \A v \in QualifiedFor(Target) :
                    \/ OpenLoad(PriorSheet, u.name) < OpenLoad(PriorSheet, v.name)
                    \/ /\ OpenLoad(PriorSheet, u.name) = OpenLoad(PriorSheet, v.name)
                       /\ DirectoryIndex(u.name) <= DirectoryIndex(v.name)

C17_Witness ==
    /\ handled = "reassign"
    /\ TheUpdate.fields["User Name"] = "Bob"
    /\ OpenLoad(PriorSheet, "Alice") = 1 /\ OpenLoad(PriorSheet, "Bob") = 0

\* C18: when no directory user qualifies as a specialist for the target team
\* the reassignment still proceeds: the update changes the assigned team,
\* leaves the assigned employee as it was, keeps the status Open, and no
\* specialist email is sent.
C18_ReassignWithoutSpecialist ==
    handled = "reassign" /\ QualifiedFor(Target) = {}
        => /\ Len(UpdatesOf(effects)) = 1
           /\ TheUpdate.fields["User Name"] = this_ticket["User Name"]
           /\ TheUpdate.fields["Ticket Status"] = "Open"
           /\ Contains(UpperOf(Str(TheUpdate.fields["Assigned Team"])), UpperOf(Target))
           /\ Recipients \subseteq KnownRequestorAddresses(this_ticket)

C18_Witness ==
    /\ handled = "reassign" /\ QualifiedFor(Target) = {} /\ ~FailedUpdate
    /\ this_ticket["Assigned Team"] = "AP Team" /\ StoredRow["Assigned Team"] = "AR Team"
    /\ StoredRow["User Name"] = "Alice"

\* the markers and keywords of the approval rule, on lower-cased text
APMarked(ticket) ==
    \/ Contains(LowerOf(Str(Get(ticket, "Ticket Type", ""))), "accounts payable")
    \/ Contains(LowerOf(Str(Get(ticket, "Assigned Team", ""))), "ap")
ARMarked(ticket) ==
    \/ Contains(LowerOf(Str(Get(ticket, "Ticket Type", ""))), "accounts receivable")
    \/ Contains(LowerOf(Str(Get(ticket, "Assigned Team", ""))), "ar")
Mentions(ticket, keywords) ==
    \E k \in keywords : Contains(LowerOf(Str(Get(ticket, "Description", ""))), k)
APKeywords == {"validate vendor", "vendor detail", "early payment", "invoice on hold"}
ARKeywords ==
    {"refund ticket", "raise refund", "investigate customer", "cancellation reason",
     "block invoice"}

\* C19: needs_manager_approval is true exactly when the type or team carries
\* an AP marker and the description an AP keyword, or the same for AR; an
\* AP-team ticket with an unrelated description is not flagged, and an AR
\* ticket is not flagged for AP keywords alone.
C19_ApprovalRule ==
    applied.fn = "needs_manager_approval"
        => /\ applied.value
                 = (\/ APMarked(applied.input) /\ Mentions(applied.input, APKeywords)
                    \/ ARMarked(applied.input) /\ Mentions(applied.input, ARKeywords))
           /\ ~Mentions(applied.input, APKeywords \cup ARKeywords) => ~applied.value
           /\ ARMarked(applied.input) /\ ~APMarked(applied.input)
                 /\ ~Mentions(applied.input, ARKeywords) => ~applied.value

\* C19 read to the letter: a ticket whose team carries the AR marker is
\* never flagged when its description has AP keywords only, whatever its
\* type says.
C19_ARTeamNeverOnAPKeywords ==
    applied.fn = "needs_manager_approval"
        => /\ applied.value
                 = (\/ APMarked(applied.input) /\ Mentions(applied.input, APKeywords)
                    \/ ARMarked(applied.input) /\ Mentions(applied.input, ARKeywords))
           /\ Contains(LowerOf(Str(Get(applied.input, "Assigned Team", ""))), "ar")
                 /\ ~Mentions(applied.input, ARKeywords) => ~applied.value

C19_Witness ==
    /\ applied.fn = "needs_manager_approval" /\ applied.value
    /\ applied.input = ("Assigned Team" :> "AP Team") @@ ("Ticket Type" :> NaN)
                       @@ ("Description" :> "Requesting Early Payment of INV-1016")

\* C20: the token is a function of (ticket id, secret) alone, so the token
\* issued for an id verifies for that id with the secret unchanged; the
\* token issued for one id is not the token of a different id; the approve
\* and reject links of a category-3 email carry the token of the ticket's
\* own id.
C20_TokenBindsTicket ==
    /\ applied.fn = "generate_approval_token"
          => /\ verify(applied.input[1], applied.value, applied.input[2])
             /\ \A other \in TokenIds \ {applied.input[1]} :
                   ~verify(other, applied.value, applied.input[2])
    /\ applied.fn = "verify"
          => (applied.value = (applied.input[1] = applied.input[2]))
    /\ applied.fn = "needs_approval"
          => \A i \in DOMAIN applied.value :
                IsEmail(applied.value[i])
                    => \E token \in {Sha256Hex(Str(applied.input["Ticket ID"]) \o ":"
                                               \o "ey_approval_secret")} :
                          /\ Contains(applied.value[i].body,
                                "/ticket/approve/" \o Str(applied.input["Ticket ID"])
                                    \o "?token=" \o token \o " ")
                          /\ Contains(applied.value[i].body \o " ",
                                "/ticket/reject/" \o Str(applied.input["Ticket ID"])
                                    \o "?token=" \o token \o " ")

C20_Witness ==
    /\ applied.fn = "needs_approval"
    /\ \E i \in DOMAIN applied.value :
          IsEmail(applied.value[i]) /\ Contains(applied.value[i].body, "?token=sha256<TCK-1:")

\* the candidates of a ticket before duplicates are removed, by origin
FieldHits(ticket) == NormalizedOf(FieldValues(ticket, INVOICE_FIELD_HINTS))
TextHits(ticket) ==
    NormalizedOf(INVOICE_REGEX(DescriptionOf(ticket)))
    \o NormalizedOf(GENERIC_INVOICE_REGEX(DescriptionOf(ticket)))
FirstIndexOf(seq, x) == Min({i \in DOMAIN seq : seq[i] = x})
FirstOccurrences(out, all) ==
    /\ \A i, j \in DOMAIN out : out[i] = out[j] => i = j
    /\ Range(out) = Range(all)
    /\ \A i, j \in DOMAIN out : i < j => FirstIndexOf(all, out[i]) < FirstIndexOf(all, out[j])

\* C21: the list of extract_invoice_candidates has no duplicates and is the
\* first-occurrence subsequence of field hits, then INV-pattern hits, then
\* generic-pattern hits; every field hit precedes every candidate that comes
\* from the free text only.
C21_OrderedWithoutDuplicates ==
    applied.fn = "extract_invoice_candidates"
        => /\ FirstOccurrences(applied.value,
                               FieldHits(applied.input) \o TextHits(applied.input))
           /\ \A i, j \in DOMAIN applied.value :
                 /\ applied.value[i] \in Range(FieldHits(applied.input))
                 /\ applied.value[j] \notin Range(FieldHits(applied.input))
                 => i < j

C21_Witness ==
    /\ applied.fn = "extract_invoice_candidates"
    /\ applied.value = << "INV-1016", "INV", "INV-2044" >>
    /\ Len(FieldHits(applied.input)) = 1
    /\ Len(TextHits(applied.input)) = 4

\* C22: for a ticket without structured invoice fields whose description is
\* "Please send me invoice copy for INV-1016" the extractor yields exactly
\* ["INV-1016"].
C22_ScenarioYieldsTheReference ==
    /\ applied.fn = "extract_invoice_candidates"
    /\ DOMAIN applied.input \cap Range(INVOICE_FIELD_HINTS) = {}
    /\ Get(applied.input, "Description", "") = "Please send me invoice copy for INV-1016"
    => applied.value = << "INV-1016" >>

\* C23: normalize_invoice_reference maps empty and blank input to absent,
\* "inv1016" to "INV-1016", "Invoice #2044" to "INV-2044", prefixes a purely
\* numeric value with "INV-", and returns a normalized reference unchanged.
C23_NormalizeContract ==
    applied.fn = "normalize_invoice_reference"
        => /\ applied.input \in {"", "  "} => applied.value = None
           /\ applied.input = "inv1016" => applied.value = "INV-1016"
           /\ applied.input = "Invoice #2044" => applied.value = "INV-2044"
           /\ applied.input = "2044" => applied.value = "INV-2044"
           /\ Truthy(applied.value)
                 => normalize_invoice_reference(applied.value) = applied.value

\* an update of this invocation that was stored and wrote the given status
Stored(status) ==
    \E i \in DOMAIN effects :
       /\ IsUpdate(effects[i]) /\ effects[i].ok
       /\ Get(effects[i].fields, "Ticket Status", None) = status

\* C24: the dispatcher acts on Open tickets only: a sweep selects no ticket
\* whose stored status is Pending Manager Approval or Awaiting Manual Review,
\* and process_ticket does not update or notify for a row that is not Open,
\* so a ticket awaiting approval is never moved to Closed by the agent.
C24_OnlyFromOpen ==
    /\ \A i \in DOMAIN queue : queue[i]["Ticket Status"] = "Open"
    /\ handled # "none" => this_ticket["Ticket Status"] = "Open"
    /\ this_ticket # NoTicket /\ this_ticket["Ticket Status"] = "Pending Manager Approval"
          => ~Stored("Closed")

\* C26: for a ticket on which needs_manager_approval is true, process_ticket
\* does not set the status to Closed, whatever closure type the reasoning
\* service proposes.
C26_ClassifierOverridesModel ==
    this_ticket # NoTicket /\ needs_manager_approval(this_ticket)
        => /\ handled \notin ClosingBranches
           /\ \A i \in DOMAIN effects :
                 IsUpdate(effects[i])
                     => Get(effects[i].fields, "Ticket Status", None) # "Closed"

\* the approval emails of this invocation addressed to a manager of the
\* ticket's team, delivered or not
ManagersOfTeam(team) ==
    {u.email : u \in {v \in Range(USERS) : LowerOf(Str(v.role)) = "manager" /\ v.team = team}}
ApprovalRequests ==
    {i \in DOMAIN effects :
        /\ IsEmail(effects[i])
        /\ effects[i].to \in ManagersOfTeam(Get(this_ticket, "Assigned Team", None))
        /\ Contains(effects[i].body, "/ticket/approve/")
        /\ Contains(effects[i].body, "/ticket/reject/")}

\* C27: whenever process_ticket stores the status Pending Manager Approval,
\* an approval email with approve and reject links was sent to the manager
\* of the ticket's team in the same invocation.
C27_PendingOnlyWhenAsked == Stored("Pending Manager Approval") => ApprovalRequests # {}

\* C28: a tool call with an unknown tool name, or a resolve_ticket call with
\* a closure_type that is none of without_document, with_document and
\* needs_approval, is rejected: no record update, no email.
C28_UnknownRejected ==
    /\ handled = "none" => effects = << >>
    /\ /\ handled \in ResolveBranches
       /\ handled_args["closure_type"] \notin ResolveBranches
       => effects = << >>

\* C29: over successive sweeps a ticket is dispatched by a resolving tool
\* call at most once.
C29_OncePerTicketAcrossSweeps == \A id \in BagToSet(swept) : CopiesIn(id, swept) <= 1

\* C30: a turn without tool calls whose content is absent or empty makes
\* process_ticket return "No resolution reached."; no error is raised (in
\* process_ticket a TypeError comes from absent content only).
C30_FallbackWithoutError == ~(outcome.kind = "raised" /\ outcome.value = "TypeError")

\* both runs were handed the same ticket, and run 2 passed its status check
SameTicket ==
    /\ runs[1].ticket # NoTicket /\ runs[2].ticket # NoTicket
    /\ runs[1].ticket["Ticket ID"] = runs[2].ticket["Ticket ID"]
\* a party got a notification from each of the two runs
DuplicateNotification ==
    \E i \in DOMAIN runs[1].did, j \in DOMAIN runs[2].did :
       /\ IsEmail(runs[1].did[i]) /\ runs[1].did[i].ok
       /\ IsEmail(runs[2].did[j]) /\ runs[2].did[j].ok
       /\ runs[1].did[i].to = runs[2].did[j].to
\* the two runs stored different values in a field of the ticket
ConflictingWrites ==
    \E i \in DOMAIN runs[1].did, j \in DOMAIN runs[2].did :
       /\ IsUpdate(runs[1].did[i]) /\ runs[1].did[i].ok
       /\ IsUpdate(runs[2].did[j]) /\ runs[2].did[j].ok
       /\ \E k \in DOMAIN runs[1].did[i].fields \cap DOMAIN runs[2].did[j].fields :
             runs[1].did[i].fields[k] # runs[2].did[j].fields[k]
\* run 1, the first to start, stored the status Closed
FirstRunClosed ==
    \E i \in DOMAIN runs[1].did :
       /\ IsUpdate(runs[1].did[i]) /\ runs[1].did[i].ok
       /\ runs[1].did[i].fields["Ticket Status"] = "Closed"

\* C25: when the second run for a ticket starts after the first has ended,
\* on the row re-read from the sheet, and the first run closed the ticket,
\* no party is notified by both runs and the runs write no conflicting
\* values; without that exclusion both runs pass the status check and
\* dispatch, and such states are reached (C25_Witness).
C25_SerializedRunsDoNotCollide ==
    SameTicket /\ ~runs[2].overlapping /\ FirstRunClosed
        => /\ runs[2].pc = "done" /\ runs[2].did = << >>
           /\ ~DuplicateNotification
           /\ ~ConflictingWrites

C25_Witness ==
    /\ SameTicket /\ runs[2].overlapping
    /\ runs[1].pc = "done" /\ runs[2].pc = "done"
    /\ runs[1].ticket["Ticket Status"] = "Open" /\ runs[2].ticket["Ticket Status"] = "Open"
    /\ DuplicateNotification
    /\ ConflictingWrites
    /\ FirstRunClosed
    /\ store[1]["Ticket Status"] = "Open"

\* C31: conversation state is local to one process_ticket invocation: each
\* ticket of a sweep starts with the system and the user message only and
\* with no cached invoice, and a cached invoice was put there by a search of
\* the same conversation, so no record cached for one ticket reaches
\* another ticket's document or email.
C31_ConversationIsLocal ==
    /\ [](Running /\ last_invoice_data # NoInvoice => CopiesIn("tool", messages) > 0)
    /\ [][~Running /\ Running'
              => /\ messages' = SetToBag({"system", "user"})
                 /\ last_invoice_data' = NoInvoice]_vars

C31_Witness ==
    /\ runner = "sweep" /\ pc = "chat" /\ turn = 0
    /\ results = << "Ticket TCK-1: with_document" >>
    /\ this_ticket["Ticket ID"] = "TCK-2"
    /\ messages = SetToBag({"system", "user"})
    /\ last_invoice_data = NoInvoice

====
